---- MODULE Spec2Model ----
(***************************************************************************)
(* Set packing -> Ising translator (qiskit_aqua/translators/ising/         *)
(* setpacking.py).  The module models                                      *)
(*   - get_setpacking_qubitops as the loop nest of lines 70-100, one       *)
(*     action per loop iteration, followed by get_solution and             *)
(*     check_disjoint applied to a solver's bit vector (Spec);             *)
(*   - check_disjoint on arbitrary solution vectors (SpecDisjoint);        *)
(*   - sample_most_likely on dense vectors and on count mappings           *)
(*     (SpecSample);                                                       *)
(*   - get_solution applied once and twice (SpecSolution).                 *)
(*                                                                         *)
(* Conventions.  Python indices are kept 0-based in i, j, k; a Python      *)
(* list or array a is a TLA+ sequence and a[i] is written a[i + 1].        *)
(* Every real number the Hamiltonian builder handles is a multiple of      *)
(* 0.25 (exact in binary floating point), and is stored as the integer     *)
(* number of quarters: QUARTER is 0.25 and HALF is 0.5.                    *)
(* The floats of sample_most_likely are fractions [num, den]; den = 0 with *)
(* num = 0 is the not-a-number produced by 0 / 0.0.                        *)
(***************************************************************************)
EXTENDS Integers, Sequences, FiniteSets, TLC

VARIABLES pc, list_of_subsets, n, i, j, pauli_list, shift, result,
          x, sol, disjoint, state_vector, xx

vars == <<pc, list_of_subsets, n, i, j, pauli_list, shift, result,
          x, sol, disjoint, state_vector, xx>>

(* ------------------------------ bounds -------------------------------- *)

MaxN == 3

NumElems == 2

MaxQubits == 2

MaxEntries == 3

MaxLen == 6

(* ------------------------- program constants -------------------------- *)

A == 10

QUARTER == 1

HALF == 2

(* ------------------------------ inputs -------------------------------- *)

SeqsUpTo(S, m) == UNION {[1..l -> S] : l \in 0..m}

Subsets ==
    {L \in SeqsUpTo(1..NumElems, NumElems) :
        \A p \in 1..(Len(L) - 1) : L[p] < L[p + 1]}

Example == <<(<<1, 2>>), (<<2, 3>>), (<<4, 5>>)>>

Unsorted == <<(<<2, 1, 1>>), (<<3, 3>>), (<<3, 2>>)>>

Collections == SeqsUpTo(Subsets, MaxN) \cup {Example, Unsorted}

SolValues == {0, 1, 2}

AmplitudeValues == {0 - 2, 0 - 1, 0, 1}

Counts == {0, 1, 2}

BinaryVectors(m) == [1..m -> {0, 1}]

NoValue == <<>>

(* ----------------------- get_setpacking_qubitops ---------------------- *)

ToSet(L) == {L[m] : m \in 1..Len(L)}

Intersects_Union(L, R) == ToSet(L) \cup ToSet(R) # {}

Intersects(L, R) == ToSet(L) \cap ToSet(R) # {}

zeros(m) == [q \in 1..m |-> 0]

Pauli_Swapped(v, w) == [v |-> w, w |-> v]

Pauli(v, w) == [v |-> v, w |-> w]

Operator(paulis) == [paulis |-> paulis]

PairTerms_TwoTerms(m, a, b) ==
    LET wp  == zeros(m)
        vp  == [[zeros(m) EXCEPT ![a + 1] = 1] EXCEPT ![b + 1] = 1]
        vp2 == [zeros(m) EXCEPT ![a + 1] = 1]
    IN  << <<A * QUARTER, Pauli(vp, wp)>>,
           <<A * QUARTER, Pauli(vp2, wp)>> >>

PairTerms_Swapped(m, a, b) ==
    LET wp  == zeros(m)
        vp  == [[zeros(m) EXCEPT ![a + 1] = 1] EXCEPT ![b + 1] = 1]
        vp2 == [zeros(m) EXCEPT ![a + 1] = 1]
        vp3 == [zeros(m) EXCEPT ![b + 1] = 1]
    IN  << <<A * QUARTER, Pauli(vp, wp)>>,
           <<A * QUARTER, Pauli(vp3, wp)>>,
           <<A * QUARTER, Pauli(vp2, wp)>> >>

PairTerms(m, a, b) ==
    LET wp  == zeros(m)
        vp  == [[zeros(m) EXCEPT ![a + 1] = 1] EXCEPT ![b + 1] = 1]
        vp2 == [zeros(m) EXCEPT ![a + 1] = 1]
        vp3 == [zeros(m) EXCEPT ![b + 1] = 1]
    IN  << <<A * QUARTER, Pauli(vp, wp)>>,
           <<A * QUARTER, Pauli(vp2, wp)>>,
           <<A * QUARTER, Pauli(vp3, wp)>> >>

ObjectiveTerm_Positive(m, a) ==
    LET wp == zeros(m)
        vp == [zeros(m) EXCEPT ![a + 1] = 1]
    IN  <<HALF, Pauli(vp, wp)>>

ObjectiveTerm(m, a) ==
    LET wp == zeros(m)
        vp == [zeros(m) EXCEPT ![a + 1] = 1]
    IN  <<0 - HALF, Pauli(vp, wp)>>

InitLocals ==
    /\ i = 0
    /\ j = 0
    /\ pauli_list = <<>>
    /\ shift = 0
    /\ result = NoValue
    /\ x = NoValue
    /\ sol = NoValue
    /\ disjoint = FALSE
    /\ state_vector = NoValue
    /\ xx = NoValue

Init ==
    /\ pc = "pairs"
    /\ list_of_subsets \in Collections
    /\ n = Len(list_of_subsets)
    /\ InitLocals

PairStep ==
    /\ pc = "pairs"
    /\ i < n
    /\ j < i
    /\ IF Intersects(list_of_subsets[i + 1], list_of_subsets[j + 1])
       THEN /\ pauli_list' = pauli_list \o PairTerms(n, i, j)
            /\ shift' = shift + A * QUARTER
       ELSE UNCHANGED <<pauli_list, shift>>
    /\ j' = j + 1
    /\ UNCHANGED <<pc, list_of_subsets, n, i, result, x, sol, disjoint,
                   state_vector, xx>>

OuterStep ==
    /\ pc = "pairs"
    /\ i < n
    /\ j = i
    /\ i' = i + 1
    /\ j' = 0
    /\ UNCHANGED <<pc, list_of_subsets, n, pauli_list, shift, result, x,
                   sol, disjoint, state_vector, xx>>

PairsDone ==
    /\ pc = "pairs"
    /\ i = n
    /\ pc' = "objective"
    /\ i' = 0
    /\ UNCHANGED <<list_of_subsets, n, j, pauli_list, shift, result, x,
                   sol, disjoint, state_vector, xx>>

ObjectiveStep ==
    /\ pc = "objective"
    /\ i < n
    /\ pauli_list' = Append(pauli_list, ObjectiveTerm(n, i))
    /\ shift' = shift + (0 - HALF)
    /\ i' = i + 1
    /\ UNCHANGED <<pc, list_of_subsets, n, j, result, x, sol, disjoint,
                   state_vector, xx>>

Return ==
    /\ pc = "objective"
    /\ i = n
    /\ result' = <<Operator(pauli_list), shift>>
    /\ pc' = "done"
    /\ UNCHANGED <<list_of_subsets, n, i, j, pauli_list, shift, x, sol,
                   disjoint, state_vector, xx>>

(* ----------------------------- get_solution --------------------------- *)

get_solution_Identity(v) == [q \in DOMAIN v |-> v[q]]

get_solution_Negate(v) == [q \in DOMAIN v |-> 0 - v[q]]

get_solution(v) == [q \in DOMAIN v |-> 1 - v[q]]

GetSolution ==
    /\ pc = "done"
    /\ \E xin \in BinaryVectors(n) :
          /\ x' = xin
          /\ sol' = get_solution(xin)
    /\ pc' = "decoded"
    /\ UNCHANGED <<list_of_subsets, n, i, j, pauli_list, shift, result,
                   disjoint, state_vector, xx>>

(* ---------------------------- check_disjoint -------------------------- *)

RECURSIVE Select_Truthy(_, _, _)
Select_Truthy(s, L, a) ==
    IF a >= Len(L) THEN <<>>
    ELSE IF s[a + 1] # 0 THEN <<L[a + 1]>> \o Select_Truthy(s, L, a + 1)
    ELSE Select_Truthy(s, L, a + 1)

RECURSIVE Select(_, _, _)
Select(s, L, a) ==
    IF a >= Len(L) THEN <<>>
    ELSE IF s[a + 1] = 1 THEN <<L[a + 1]>> \o Select(s, L, a + 1)
    ELSE Select(s, L, a + 1)

check_disjoint(s, L) ==
    LET selected_subsets == Select(s, L, 0)
        tmplen == Len(selected_subsets)
    IN  ~ \E a \in 0..(tmplen - 1) : \E b \in 0..(a - 1) :
            Intersects(selected_subsets[a + 1], selected_subsets[b + 1])

CheckDisjoint ==
    /\ pc = "decoded"
    /\ disjoint' = check_disjoint(sol, list_of_subsets)
    /\ pc' = "checked"
    /\ UNCHANGED <<list_of_subsets, n, i, j, pauli_list, shift, result, x,
                   sol, state_vector, xx>>

Next ==
    \/ PairStep
    \/ OuterStep
    \/ PairsDone
    \/ ObjectiveStep
    \/ Return
    \/ GetSolution
    \/ CheckDisjoint

Spec == Init /\ [][Next]_vars

(* ---------------------- check_disjoint on any sol --------------------- *)

InitDisjoint ==
    /\ pc = "decoded"
    /\ list_of_subsets \in Collections
    /\ n = Len(list_of_subsets)
    /\ sol \in [1..n -> SolValues]
    /\ i = 0
    /\ j = 0
    /\ pauli_list = <<>>
    /\ shift = 0
    /\ result = NoValue
    /\ x = NoValue
    /\ disjoint = FALSE
    /\ state_vector = NoValue
    /\ xx = NoValue

NextDisjoint == CheckDisjoint

SpecDisjoint == InitDisjoint /\ [][NextDisjoint]_vars

(* ------------------------ get_solution, twice ------------------------- *)

InitSolution ==
    /\ pc = "call"
    /\ x \in SeqsUpTo({0, 1}, MaxLen)
    /\ n = Len(x)
    /\ list_of_subsets = <<>>
    /\ i = 0
    /\ j = 0
    /\ pauli_list = <<>>
    /\ shift = 0
    /\ result = NoValue
    /\ sol = NoValue
    /\ disjoint = FALSE
    /\ state_vector = NoValue
    /\ xx = NoValue

Complement ==
    /\ pc = "call"
    /\ sol' = get_solution(x)
    /\ pc' = "once"
    /\ UNCHANGED <<list_of_subsets, n, i, j, pauli_list, shift, result, x,
                   disjoint, state_vector, xx>>

ComplementAgain ==
    /\ pc = "once"
    /\ xx' = get_solution(sol)
    /\ pc' = "twice"
    /\ UNCHANGED <<list_of_subsets, n, i, j, pauli_list, shift, result, x,
                   sol, disjoint, state_vector>>

NextSolution ==
    \/ Complement
    \/ ComplementAgain

SpecSolution == InitSolution /\ [][NextSolution]_vars

(* --------------------------- sample_most_likely ----------------------- *)

Float(a) == [num |-> a, den |-> 1]

IsNaN(e) == e.den = 0 /\ e.num = 0

Divide(e, t) == [num |-> e.num, den |-> e.den * t]

LessEq(a, b) == ~ IsNaN(a) /\ ~ IsNaN(b) /\ a.num * b.den <= b.num * a.den

abs_Signed(v) == v

abs(v) == [p \in DOMAIN v |->
              [num |-> IF v[p].num < 0 THEN 0 - v[p].num ELSE v[p].num,
               den |-> v[p].den]]

RECURSIVE ArgMaxFrom(_, _, _)
ArgMaxFrom(v, p, best) ==
    IF p >= Len(v) THEN best
    ELSE IF ~ LessEq(v[p + 1], v[best + 1])
         THEN IF IsNaN(v[p + 1]) THEN p ELSE ArgMaxFrom(v, p + 1, p)
         ELSE ArgMaxFrom(v, p + 1, best)

argmax(v) == IF IsNaN(v[1]) THEN 0 ELSE ArgMaxFrom(v, 1, 0)

Char(b) == IF b = 0 THEN "0" ELSE "1"

RECURSIVE bin(_)
bin(num) ==
    IF num < 2 THEN <<Char(num)>>
    ELSE bin(num \div 2) \o <<Char(num % 2)>>

Repeat(c, m) == [p \in 1..m |-> c]

binary_repr_Unpadded(num, width) == bin(num)

binary_repr(num, width) ==
    IF num = 0 THEN Repeat("0", IF width = 0 THEN 1 ELSE width)
    ELSE LET binary == bin(num)
             pad == IF width > Len(binary) THEN width - Len(binary) ELSE 0
         IN  Repeat("0", pad) \o binary

get(d, key, default) == IF key \in DOMAIN d THEN d[key] ELSE default

RECURSIVE Total(_, _, _)
Total(d, m, a) ==
    IF a >= 2 ^ m THEN 0
    ELSE get(d, binary_repr(a, m), 0) + Total(d, m, a + 1)

RECURSIVE DecodeBits(_, _, _)
DecodeBits(m, k, a) ==
    IF a >= m THEN <<>>
    ELSE <<k % 2>> \o DecodeBits(m, k \div 2, a + 1)

sample_most_likely(m, sv) ==
    LET vec == IF sv.kind = "dict"
               THEN LET temp_vec == [p \in 1..(2 ^ m) |->
                                       Float(get(sv.data, binary_repr(p - 1, m), 0))]
                        total == Total(sv.data, m, 0)
                    IN  [p \in 1..(2 ^ m) |-> Divide(temp_vec[p], total)]
               ELSE sv.data
        k == argmax(abs(vec))
    IN  DecodeBits(m, k, 0)

Amplitudes == {Float(a) : a \in AmplitudeValues}

DenseInputs(m) == {[kind |-> "ndarray", data |-> v] : v \in [1..(2 ^ m) -> Amplitudes]}

Keys(m) ==
    [1..m -> {"0", "1"}]
       \cup {bin(a) : a \in 0..(2 ^ m - 1)}
       \cup {Repeat("0", m + 1)}

DictInputs(m) ==
    {[kind |-> "dict", data |-> d] :
        d \in UNION {[D -> Counts] :
                        D \in {S \in SUBSET Keys(m) : Cardinality(S) <= MaxEntries}}}

InitSample ==
    /\ pc = "sample"
    /\ n \in 0..MaxQubits
    /\ \/ state_vector \in DenseInputs(n)
       \/ state_vector \in DictInputs(n)
    /\ list_of_subsets = <<>>
    /\ i = 0
    /\ j = 0
    /\ pauli_list = <<>>
    /\ shift = 0
    /\ result = NoValue
    /\ x = NoValue
    /\ sol = NoValue
    /\ disjoint = FALSE
    /\ xx = NoValue

SampleMostLikely ==
    /\ pc = "sample"
    /\ x' = sample_most_likely(n, state_vector)
    /\ pc' = "sampled"
    /\ UNCHANGED <<list_of_subsets, n, i, j, pauli_list, shift, result,
                   sol, disjoint, state_vector, xx>>

NextSample == SampleMostLikely

SpecSample == InitSample /\ [][NextSample]_vars

(* ====================================================================== *)
(* Properties of get_setpacking_qubitops                                  *)
(* ====================================================================== *)

Built == pc = "done"

Qubits == 0..(n - 1)

One == 4 * QUARTER

Overlap(a, b) ==
    \E p \in DOMAIN list_of_subsets[a + 1] :
       \E q \in DOMAIN list_of_subsets[b + 1] :
          list_of_subsets[a + 1][p] = list_of_subsets[b + 1][q]

OverlapPairs == {pr \in Qubits \X Qubits : pr[2] < pr[1] /\ Overlap(pr[1], pr[2])}

NumPairs == Cardinality(OverlapPairs)

ZSet(term) == {q \in DOMAIN term[2].v : term[2].v[q] = 1}

(* C1: the returned list has 3*P + n terms and the returned shift is      *)
(* 2.5*P - 0.5*n, P being the number of index pairs whose subsets         *)
(* intersect; no term and shift 0 for the empty collection; 6 terms and   *)
(* shift 1.0 for [{1,2},{2,3},{4,5}].                                     *)
C1_TermCountAndShift ==
    Built =>
       /\ Len(result[1].paulis) = 3 * NumPairs + n
       /\ result[2] = 10 * QUARTER * NumPairs - HALF * n
       /\ (n = 0 => result[1].paulis = <<>> /\ result[2] = 0)
       /\ (list_of_subsets = Example =>
              Len(result[1].paulis) = 6 /\ result[2] = One)

C1_Witness ==
    /\ pc = "done"
    /\ list_of_subsets = Example
    /\ Len(result[1].paulis) = 6
    /\ result[2] = One

ZOn(Q) == [q \in 1..n |-> IF (q - 1) \in Q THEN 1 ELSE 0]

ZTerm(c, Q) == <<c, [v |-> ZOn(Q), w |-> [q \in 1..n |-> 0]]>>

Before(pr, qr) == pr[1] < qr[1] \/ (pr[1] = qr[1] /\ pr[2] < qr[2])

Rank(pr) == Cardinality({qr \in OverlapPairs : Before(qr, pr)})

(* C2: the returned list is, for the intersecting pairs (i, j), j < i, in *)
(* ascending order of i and then of j, the three terms (2.5, Z_i Z_j),    *)
(* (2.5, Z_i), (2.5, Z_j), followed by (-0.5, Z_i) for i = 0..n-1; no     *)
(* objective term ever precedes a constraint term.                        *)
C2_TermOrder ==
    /\ \A p \in DOMAIN pauli_list : \A q \in DOMAIN pauli_list :
          (p < q) => ~ (pauli_list[p][1] < 0 /\ pauli_list[q][1] > 0)
    /\ Built =>
          LET terms == result[1].paulis
          IN  /\ Len(terms) = 3 * NumPairs + n
              /\ \A pr \in OverlapPairs :
                    /\ terms[3 * Rank(pr) + 1] = ZTerm(10 * QUARTER, {pr[1], pr[2]})
                    /\ terms[3 * Rank(pr) + 2] = ZTerm(10 * QUARTER, {pr[1]})
                    /\ terms[3 * Rank(pr) + 3] = ZTerm(10 * QUARTER, {pr[2]})
              /\ \A a \in Qubits :
                    terms[3 * NumPairs + a + 1] = ZTerm(0 - HALF, {a})

C2_Witness ==
    /\ pc = "done"
    /\ NumPairs = 2
    /\ n = 3
    /\ ~ Overlap(1, 0)

Spins == [1..n -> {-1, 1}]

RECURSIVE ZProduct(_, _)
ZProduct(Q, z) ==
    IF Q = {} THEN 1
    ELSE LET q == CHOOSE q \in Q : TRUE
         IN  z[q] * ZProduct(Q \ {q}, z)

RECURSIVE TermSum(_, _, _)
TermSum(terms, z, p) ==
    IF p > Len(terms) THEN 0
    ELSE terms[p][1] * ZProduct(ZSet(terms[p]), z) + TermSum(terms, z, p + 1)

Energy(z) == TermSum(result[1].paulis, z, 1) + result[2]

RECURSIVE SumOver(_, _)
SumOver(S, f) ==
    IF S = {} THEN 0
    ELSE LET e == CHOOSE e \in S : TRUE
         IN  f[e] + SumOver(S \ {e}, f)

XMinus(z, a) == (1 - z[a + 1]) \div 2

XPlus(z, a) == (1 + z[a + 1]) \div 2

QuboMinus(z) ==
    LET pair == [pr \in OverlapPairs |-> XMinus(z, pr[1]) * XMinus(z, pr[2])]
        single == [a \in Qubits |-> XMinus(z, a)]
    IN  10 * SumOver(OverlapPairs, pair) - SumOver(Qubits, single)

QuboPlus(z) ==
    LET pair == [pr \in OverlapPairs |-> XPlus(z, pr[1]) * XPlus(z, pr[2])]
        single == [a \in Qubits |-> XPlus(z, a)]
    IN  10 * SumOver(OverlapPairs, pair) - SumOver(Qubits, single)

(* C3 as stated: for every spin assignment z the energy of the returned   *)
(* terms plus the shift equals 10 * sum x_i x_j - sum x_i with            *)
(* x_i = (1 - z_i)/2.                                                     *)
C3_EnergyMinusSubstitution ==
    Built => \A z \in Spins : Energy(z) = One * QuboMinus(z)

(* C3 as amended: for every spin assignment z the energy of the returned  *)
(* terms plus the shift equals 10 * sum x_i x_j - sum x_i with            *)
(* x_i = (1 + z_i)/2.                                                     *)
C3_EnergyPlusSubstitution ==
    Built => \A z \in Spins : Energy(z) = One * QuboPlus(z)

C3_Witness ==
    /\ pc = "done"
    /\ n = 3
    /\ NumPairs = 1
    /\ \E z \in Spins : Energy(z) # One * QuboMinus(z)

B == 1

Ha(z) ==
    Cardinality({pr \in OverlapPairs :
                    z[pr[1] + 1] = 1 /\ z[pr[2] + 1] = 1})

Hb(z) == 0 - Cardinality({a \in Qubits : z[a + 1] = 1})

(* C4: for every spin assignment z the energy of the returned terms plus  *)
(* the shift equals A*Ha + B*Hb, Ha = sum over intersecting pairs of      *)
(* X_i X_j, Hb = -sum X_i, X_i = (z_i + 1)/2 (1 when z_i = +1, else 0).   *)
C4_DocstringHamiltonian ==
    Built => \A z \in Spins : Energy(z) = One * (A * Ha(z) + B * Hb(z))

C4_Witness ==
    /\ pc = "done"
    /\ n = 3
    /\ NumPairs = 3
    /\ \E z \in Spins : Ha(z) = 3 /\ Energy(z) = One * 27

ConstructedTerms ==
    {pauli_list[p] : p \in DOMAIN pauli_list}
       \cup (IF Built THEN {result[1].paulis[p] : p \in DOMAIN result[1].paulis}
             ELSE {})

(* C9: every term, at every point of the construction and in the returned *)
(* list, is over exactly n qubits, has an all-zero X-indicator vector and *)
(* has Z on exactly one or exactly two distinct qubits; the first term of *)
(* every constraint triple has Z on two distinct qubits.                  *)
C9_TermShape ==
    /\ \A term \in ConstructedTerms :
          /\ DOMAIN term[2].v = 1..n
          /\ DOMAIN term[2].w = 1..n
          /\ \A q \in 1..n : term[2].w[q] = 0 /\ term[2].v[q] \in {0, 1}
          /\ Cardinality(ZSet(term)) \in {1, 2}
    /\ \A p \in DOMAIN pauli_list :
          (pauli_list[p][1] > 0 /\ p % 3 = 1) =>
              Cardinality(ZSet(pauli_list[p])) = 2

C9_Witness ==
    /\ pc = "pairs"
    /\ i = 2
    /\ Len(pauli_list) = 3
    /\ Cardinality(ZSet(pauli_list[1])) = 2
    /\ Cardinality(ZSet(pauli_list[2])) = 1

SpinOf(bits) == [q \in DOMAIN bits |-> IF bits[q] = 0 THEN 1 ELSE -1]

EnergyOfBits(bits) == Energy(SpinOf(bits))

MinEnergy(bits) == \A other \in BinaryVectors(n) : EnergyOfBits(bits) <= EnergyOfBits(other)

Packings == {S \in SUBSET Qubits : \A a \in S : \A b \in S : a # b => ~ Overlap(a, b)}

MaxPacking == CHOOSE m \in 0..n :
                 /\ \E S \in Packings : Cardinality(S) = m
                 /\ \A S \in Packings : Cardinality(S) <= m

(* C10: for every bit vector x of minimum energy (z_i = +1 when x[i] = 0, *)
(* z_i = -1 when x[i] = 1), check_disjoint(get_solution(x)) is true, the  *)
(* number of ones of get_solution(x) is the maximum size of a family of   *)
(* pairwise-disjoint subsets, and the minimum energy is minus that size.  *)
C10_GroundStateIsMaximumPacking ==
    (pc = "checked" /\ MinEnergy(x)) =>
       /\ disjoint = TRUE
       /\ Cardinality({q \in DOMAIN sol : sol[q] = 1}) = MaxPacking
       /\ EnergyOfBits(x) = 0 - One * MaxPacking

C10_Witness ==
    /\ pc = "checked"
    /\ MinEnergy(x)
    /\ n = 3
    /\ NumPairs = 2
    /\ MaxPacking = 2
    /\ disjoint = TRUE

(* ====================================================================== *)
(* Properties of check_disjoint, sample_most_likely and get_solution      *)
(* ====================================================================== *)

SelectedIndices == {a \in Qubits : sol[a + 1] = 1}

Clash == \E a \in SelectedIndices : \E b \in SelectedIndices :
            a # b /\ Overlap(a, b)

(* C5: check_disjoint returns true iff no two distinct indices i, j have  *)
(* sol[i] = 1, sol[j] = 1 and intersecting subsets; true when at most one *)
(* subset is selected; true for [1,0,1] and false for [1,1,0] on          *)
(* [{1,2},{2,3},{4,5}]; entries other than 1 select nothing.              *)
C5_CheckDisjointIff ==
    pc = "checked" =>
       /\ disjoint = (~ Clash)
       /\ (Cardinality(SelectedIndices) <= 1 => disjoint = TRUE)
       /\ (list_of_subsets = Example /\ sol = <<1, 0, 1>> => disjoint = TRUE)
       /\ (list_of_subsets = Example /\ sol = <<1, 1, 0>> => disjoint = FALSE)

C5_Witness ==
    /\ pc = "checked"
    /\ n = 3
    /\ sol[1] = 1
    /\ sol[2] = 2
    /\ sol[3] = 1
    /\ Overlap(0, 1)
    /\ Overlap(1, 2)
    /\ ~ Overlap(0, 2)
    /\ disjoint = TRUE

Magnitude(e) == IF e.num < 0 THEN 0 - e.num ELSE e.num

FirstMaximum(v) ==
    CHOOSE k \in 0..(Len(v) - 1) :
       /\ \A m \in 0..(Len(v) - 1) : Magnitude(v[m + 1]) <= Magnitude(v[k + 1])
       /\ \A m \in 0..(k - 1) : Magnitude(v[m + 1]) < Magnitude(v[k + 1])

BitOf(k, a) == (k \div (2 ^ a)) % 2

(* C6: on a dense vector v of length 2^n, sample_most_likely returns the  *)
(* length-n vector x with x[i] = floor(k / 2^i) mod 2, k being the lowest *)
(* index at which |v| is maximal; every entry is 0 or 1.                  *)
C6_DenseDecoding ==
    (pc = "sampled" /\ state_vector.kind = "ndarray") =>
       LET k == FirstMaximum(state_vector.data)
       IN  /\ DOMAIN x = 1..n
           /\ \A a \in Qubits : x[a + 1] = BitOf(k, a) /\ x[a + 1] \in {0, 1}

C6_Witness ==
    /\ pc = "sampled"
    /\ state_vector.kind = "ndarray"
    /\ n = 2
    /\ state_vector.data[1].num = 0
    /\ state_vector.data[2].num = 0 - 2
    /\ state_vector.data[3].num = 1
    /\ state_vector.data[4].num = 0 - 2
    /\ x = <<1, 0>>

DigitOf(c) == IF c = "0" THEN 0 ELSE 1

KeyOf(k) == [p \in 1..n |-> Char(BitOf(k, n - p))]

CountOf(d, key) == IF key \in DOMAIN d THEN d[key] ELSE 0

DenseOf(d) ==
    [kind |-> "ndarray",
     data |-> [p \in 1..(2 ^ n) |-> [num |-> CountOf(d, KeyOf(p - 1)), den |-> 1]]]

AllCounts(d) == SumOver(DOMAIN d, d)

Winner(d) ==
    CHOOSE k \in 0..(2 ^ n - 1) :
       /\ \A m \in 0..(2 ^ n - 1) : CountOf(d, KeyOf(m)) <= CountOf(d, KeyOf(k))
       /\ \A m \in 0..(k - 1) : CountOf(d, KeyOf(m)) < CountOf(d, KeyOf(k))

(* C7: on a mapping of bit strings to non-negative counts with positive   *)
(* total, sample_most_likely returns what it returns on the dense vector  *)
(* d, d[k] = count of the n-character most-significant-first binary       *)
(* representation of k (0 when absent); other keys are ignored; x[i] is   *)
(* character n-1-i of the key of largest count, ties going to the         *)
(* numerically smallest key.                                              *)
C7_MappingDecoding ==
    (pc = "sampled" /\ state_vector.kind = "dict"
        /\ AllCounts(state_vector.data) > 0) =>
       /\ x = sample_most_likely(n, DenseOf(state_vector.data))
       /\ DOMAIN x = 1..n
       /\ \A a \in Qubits :
             x[a + 1] = DigitOf(KeyOf(Winner(state_vector.data))[n - a])

C7_Witness ==
    /\ pc = "sampled"
    /\ state_vector.kind = "dict"
    /\ n = 2
    /\ DOMAIN state_vector.data = {<<"0", "1">>, <<"1", "0">>, <<"1">>}
    /\ state_vector.data[<<"0", "1">>] = 1
    /\ state_vector.data[<<"1", "0">>] = 1
    /\ state_vector.data[<<"1">>] = 2
    /\ x = <<1, 0>>

(* C8: get_solution complements every entry: get_solution(x)[i] =         *)
(* 1 - x[i], the result has the length of x and is binary, and            *)
(* get_solution(get_solution(x)) = x.                                     *)
C8_ComplementInvolution ==
    /\ pc \in {"once", "twice"} =>
          /\ DOMAIN sol = DOMAIN x
          /\ \A q \in DOMAIN x : sol[q] = 1 - x[q] /\ sol[q] \in {0, 1}
    /\ pc = "twice" => xx = x

C8_Witness ==
    /\ pc = "twice"
    /\ x = <<1, 0, 0, 1>>
    /\ sol = <<0, 1, 1, 0>>
    /\ xx = x

====
